---- MODULE Spec2Model ----
(***************************************************************************)
(* NewsLocator: the batched city-annotation pipeline of src/analyzer.py.   *)
(*                                                                         *)
(* analyze_locations drives a list of article dicts through                *)
(* LocationAnalyzer.analyze_batch / analyze_article.  The model is one     *)
(* sequential process whose position is pc; the external completion        *)
(* service is the environment (svcReplies).                                *)
(*                                                                         *)
(* Python values are tagged records: [t |-> "str", s |-> ...],             *)
(* [t |-> "list", l |-> ...], [t |-> "int", n |-> ...], [t |-> "None"],    *)
(* [t |-> "dict", d |-> ...].  A dict's contents (and an article) is a     *)
(* function from key strings to Python values.                             *)
(*                                                                         *)
(* A response text is a sequence of tokens.  "P" is a run of prose with    *)
(* no brace and no backtick, "W" a run of whitespace, "FJ" the opening     *)
(* fence ```json, "F" a bare fence ```, "JUNK" text that starts with {     *)
(* and is not JSON, and every other token is the text of one JSON value.   *)
(***************************************************************************)
EXTENDS Integers, Sequences, FiniteSets, TLC

VARIABLES
    feedReplies,    \* what feedparser.parse may return in this run
    fetch_attempt,  \* tenacity attempt_number of the running fetch_feed
    feed,           \* collect_articles: the feed fetch_feed returned
    all_articles,   \* collect_articles: all_articles
    articles,       \* the list passed to analyze_locations
    given,          \* the value of that list when analyze_locations was called
    svcReplies,     \* what the completion service may answer in this run
    pc,             \* position of the single thread of control
    i,              \* analyze_locations: start index of the current batch
    j,              \* analyze_batch: enumerate index inside the batch
    attempt,        \* tenacity attempt_number of the running analyze_article
    batch_results,  \* analyze_batch: results
    results,        \* analyze_locations: results
    returned,       \* the list analyze_locations returned, once pc = "done"
    trace           \* history of batches, attempts, calls, appends, sleeps:
                    \* "batch" (idx = start, n = size), "attempt" (n = number),
                    \* "call" (with the reply and the article sent), "except" (caught in
                    \* analyze_batch), "append" (n = 1 when analyze_article
                    \* returned the record), "backoff", "pause",
                    \* "batch_pause" (n = seconds); idx counts articles from 0;
                    \* of fetch_feed: "fetch" (n = attempt number, with the
                    \* reply), "fetch_backoff" (n = seconds), both at idx -1

\* the variables of collect_articles
cvars == <<feedReplies, fetch_attempt, feed, all_articles>>

vars == <<cvars, articles, given, svcReplies, pc, i, j, attempt, batch_results,
          results, returned, trace>>

----------------------------------------------------------------------------
\* Bounds of the model

MaxArticles == 4

MaxBatchArticles == 7

MaxTextLen == 3

MaxEntries == 6

----------------------------------------------------------------------------
\* Program constants

BATCH_SIZE == 3

INTER_BATCH_DELAY == 2

INTRA_BATCH_DELAY == 1

MAX_ATTEMPTS == 3

WAIT_MULTIPLIER == 1

WAIT_MIN == 2

WAIT_MAX == 10

----------------------------------------------------------------------------
\* Python values

PyStr(s) == [t |-> "str", s |-> s]

PyList(l) == [t |-> "list", l |-> l]

PyInt(n) == [t |-> "int", n |-> n]

PyNone == [t |-> "None"]

PyDict(d) == [t |-> "dict", d |-> d]

\* d[k] = v on a dict
DictSet(d, k, v) == [x \in (DOMAIN d) \cup {k} |-> IF x = k THEN v ELSE d[x]]

\* d.get(k, default)
DictGet(d, k, default) == IF k \in DOMAIN d THEN d[k] ELSE default

\* s[start:stop] on a list, 0-based, stop exclusive and clipped
Slice(s, start, stop) ==
    LET hi == IF stop < Len(s) THEN stop ELSE Len(s)
    IN  IF start >= hi THEN <<>> ELSE SubSeq(s, start + 1, hi)

----------------------------------------------------------------------------
\* Response texts and json.loads

ProseTokens == {"P"}

SpaceTokens == {"W"}

FenceTokens == {"FJ", "F"}

\* texts of JSON objects: they begin with {
ObjectTokens == {"Ofull", "Onocities", "Onorat", "Otypes"}

\* texts of JSON values that are not objects and hold no brace
ScalarTokens == {"Num", "Arr"}

ValueTokens == ObjectTokens \cup ScalarTokens

\* tokens whose first character is {
BraceTokens == ObjectTokens \cup {"JUNK"}

Tokens == ProseTokens \cup SpaceTokens \cup FenceTokens \cup ValueTokens \cup {"JUNK"}

\* the Python value json.loads builds from the text of one JSON value
ValueOf(tok) ==
    CASE tok = "Ofull"     -> PyDict([cities |-> PyList(<<PyStr("Paris")>>),
                                      rationale |-> PyStr("r")])
      [] tok = "Onocities" -> PyDict([rationale |-> PyStr("x")])
      [] tok = "Onorat"    -> PyDict([cities |-> PyList(<<PyStr("X")>>)])
      [] tok = "Otypes"    -> PyDict([cities |-> PyStr("Paris"),
                                      rationale |-> PyStr("")])
      [] tok = "Num"       -> PyInt(123)
      [] tok = "Arr"       -> PyList(<<PyInt(1)>>)

RECURSIVE LStrip(_)
\* text.lstrip(): drop leading whitespace
LStrip(text) ==
    IF text # <<>> /\ Head(text) \in SpaceTokens THEN LStrip(Tail(text)) ELSE text

RECURSIVE RStrip(_)
\* text.rstrip(): drop trailing whitespace
RStrip(text) ==
    IF text # <<>> /\ text[Len(text)] \in SpaceTokens
    THEN RStrip(SubSeq(text, 1, Len(text) - 1))
    ELSE text

\* text.strip()
Strip(text) == RStrip(LStrip(text))

\* json.loads(text): one JSON value between optional whitespace, otherwise
\* json.JSONDecodeError with the decoder's message
JsonLoads(text) ==
    LET body == Strip(text)
    IN  IF body = <<>> THEN [ok |-> FALSE, msg |-> "Expecting value"]
        ELSE IF Head(body) \in ValueTokens
             THEN IF Len(body) = 1
                  THEN [ok |-> TRUE, val |-> ValueOf(Head(body))]
                  ELSE [ok |-> FALSE, msg |-> "Extra data"]
        ELSE IF Head(body) = "JUNK"
             THEN [ok |-> FALSE, msg |-> "Expecting property name enclosed in double quotes"]
        ELSE [ok |-> FALSE, msg |-> "Expecting value"]

\* "```json" in content
HasJsonFence(content) == \E k \in 1..Len(content) : content[k] = "FJ"

\* content.find(sub) for a one-token needle set: 0-based index or -1
Find(content, needles) ==
    IF \E k \in 1..Len(content) : content[k] \in needles
    THEN (CHOOSE k \in 1..Len(content) :
              /\ content[k] \in needles
              /\ \A m \in 1..(k - 1) : content[m] \notin needles) - 1
    ELSE -1

\* re.search(r'```json\s*(.*?)\s*```', content, re.DOTALL): the leftmost
\* ```json that some later ``` closes (the ``` that opens another ```json
\* closes it too); group(1) is what lies between, without the whitespace
\* at either end
FenceSearch(content) ==
    LET opens == {a \in 1..Len(content) :
                     /\ content[a] = "FJ"
                     /\ \E b \in (a + 1)..Len(content) : content[b] \in FenceTokens}
    IN  IF opens = {} THEN [found |-> FALSE]
        ELSE LET a == CHOOSE x \in opens : \A y \in opens : x <= y
                 b == CHOOSE x \in (a + 1)..Len(content) :
                          /\ content[x] \in FenceTokens
                          /\ \A y \in (a + 1)..(x - 1) : content[y] \notin FenceTokens
             IN  [found |-> TRUE, group |-> Strip(SubSeq(content, a + 1, b - 1))]

\* an extraction that overlooks the fence and only looks for a brace
ExtractJson_NoFence(content) ==
    LET json_match == Strip(content)
    IN  IF json_match # <<>> /\ Head(json_match) \in BraceTokens
        THEN json_match
        ELSE LET start_idx == Find(content, BraceTokens)
             IN  IF start_idx # -1
                 THEN SubSeq(content, start_idx + 1, Len(content))
                 ELSE json_match

\* analyze_article, lines 154-175: the text handed to json.loads
ExtractJson(content) ==
    IF HasJsonFence(content)
    THEN LET json_match == FenceSearch(content)
         IN  IF json_match.found THEN json_match.group ELSE content
    ELSE LET json_match == Strip(content)
         IN  IF json_match # <<>> /\ Head(json_match) \in BraceTokens
             THEN json_match
             ELSE LET start_idx == Find(content, BraceTokens)
                  IN  IF start_idx # -1
                      THEN SubSeq(content, start_idx + 1, Len(content))
                      ELSE json_match

----------------------------------------------------------------------------
\* LocationAnalyzer.analyze_article

\* ", ".join(article.get("categories", [])) raises TypeError unless the
\* value is iterable and every item is a str
JoinRaises(v) ==
    CASE v.t = "list" -> \E k \in 1..Len(v.l) : v.l[k].t # "str"
      [] v.t = "str"  -> FALSE
      [] OTHER        -> TRUE

\* lines 134-139: building the prompt raises, outside the try block
PromptRaises(article) == JoinRaises(DictGet(article, "categories", PyList(<<>>)))

\* default-filling that leaves the rationale empty
FillDefaults_EmptyRationale(result) ==
    IF result.t # "dict"
    THEN [ok |-> FALSE, msg |-> "argument of type is not iterable"]
    ELSE LET d1 == IF "cities" \notin DOMAIN result.d
                   THEN DictSet(result.d, "cities", PyList(<<>>))
                   ELSE result.d
             d2 == IF "rationale" \notin DOMAIN d1
                   THEN DictSet(d1, "rationale", PyStr(""))
                   ELSE d1
         IN  [ok |-> TRUE, d |-> d2]

\* lines 178-181: `"cities" not in result`, `result["cities"] = []`, and the
\* same for rationale; on a value that is not a dict one of them raises
\* TypeError
FillDefaults(result) ==
    IF result.t # "dict"
    THEN [ok |-> FALSE,
          msg |-> IF result.t = "list"
                  THEN "list indices must be integers or slices, not str"
                  ELSE "argument of type is not iterable"]
    ELSE LET d1 == IF "cities" \notin DOMAIN result.d
                   THEN DictSet(result.d, "cities", PyList(<<>>))
                   ELSE result.d
             d2 == IF "rationale" \notin DOMAIN d1
                   THEN DictSet(d1, "rationale", PyStr("No rationale provided"))
                   ELSE d1
         IN  [ok |-> TRUE, d |-> d2]

\* writing the fields to the input dict itself, without copy()
InputAfterWrite_NoCopy(art, rec) == rec

\* lines 184, 194, 204 and 237: the annotation fields are written to
\* article.copy(), a new dict, so the dict in the input list keeps its value
InputAfterWrite(art, rec) == art

\* a success record that also sets an empty error field
SuccessRecord_WithError(article, d) ==
    DictSet(DictSet(DictSet(article, "cities", d["cities"]),
                    "rationale", d["rationale"]),
            "error", PyStr(""))

\* lines 184-187
SuccessRecord(article, d) ==
    DictSet(DictSet(article, "cities", d["cities"]), "rationale", d["rationale"])

\* a parse-error record whose rationale was left empty
ParseErrorRecord_EmptyRationale(article, msg) ==
    DictSet(DictSet(DictSet(article, "cities", PyList(<<>>)),
                    "rationale", PyStr("")),
            "error", PyStr(msg))

\* lines 189-198: except json.JSONDecodeError
ParseErrorRecord(article, msg) ==
    DictSet(DictSet(DictSet(article, "cities", PyList(<<>>)),
                    "rationale", PyStr("Error parsing analysis results")),
            "error", PyStr(msg))

\* lines 200-207: except Exception
ApiFailureRecord(article, msg) ==
    DictSet(DictSet(article, "cities", PyList(<<>>)),
            "rationale", PyStr("Error: " \o msg))

\* the exception classes that can arise, all subclasses of Exception
ExceptionClasses ==
    {"TypeError", "JSONDecodeError", "APIConnectionError", "RetryError", "Exception"}

\* does `except <handler>` catch an exception of class cls
Handles(handler, cls) ==
    IF handler = "Exception" THEN cls \in ExceptionClasses ELSE cls = handler

\* a handler for the wrong exception class
PARSE_HANDLER_KeyError == "KeyError"

\* line 189: except json.JSONDecodeError
PARSE_HANDLER == "JSONDecodeError"

\* a handler that catches decoding errors only
CALL_HANDLER_JsonOnly == "JSONDecodeError"

\* line 200: except Exception
CALL_HANDLER == "Exception"

\* line 115: retry=retry_if_exception_type((Exception))
RETRY_ON == "Exception"

Raised(cls, msg) == [raised |-> TRUE, cls |-> cls, msg |-> msg]

Returned(rec) == [raised |-> FALSE, rec |-> rec]

\* lines 143-187: the service call and the inner try block, before any
\* handler: a record, or the exception that leaves the block
TryBlock(article, reply) ==
    CASE reply.kind = "raise" -> Raised("APIConnectionError", reply.desc)
      [] reply.kind = "none"  ->
             \* `"```json" in content` with content None
             Raised("TypeError", "argument of type is not iterable")
      [] reply.kind = "text"  ->
             LET loaded == JsonLoads(ExtractJson(reply.content))
             IN  IF ~loaded.ok
                 THEN Raised("JSONDecodeError", loaded.msg)
                 ELSE LET filled == FillDefaults(loaded.val)
                      IN  IF filled.ok
                          THEN Returned(SuccessRecord(article, filled.d))
                          ELSE Raised("TypeError", filled.msg)

\* lines 141-207: the body of analyze_article after the prompt is built
AnalyzeReply(article, reply) ==
    LET out == TryBlock(article, reply)
    IN  IF ~out.raised THEN out
        ELSE IF reply.kind # "raise" /\ Handles(PARSE_HANDLER, out.cls)
             THEN Returned(ParseErrorRecord(article, out.msg))
        ELSE IF Handles(CALL_HANDLER, out.cls)
             THEN Returned(ApiFailureRecord(article, out.msg))
        ELSE out

\* an exponential wait without the floor
BackoffWait_NoFloor(n) ==
    LET raw == WAIT_MULTIPLIER * 2 ^ (n - 1)
    IN  IF raw < WAIT_MAX THEN raw ELSE WAIT_MAX

\* tenacity wait_exponential(multiplier=1, min=2, max=10) after attempt n
BackoffWait(n) ==
    LET raw == WAIT_MULTIPLIER * 2 ^ (n - 1)
        capped == IF raw < WAIT_MAX THEN raw ELSE WAIT_MAX
    IN  IF capped > WAIT_MIN THEN capped ELSE WAIT_MIN

----------------------------------------------------------------------------
\* LocationAnalyzer.analyze_batch

\* line 226: article.get('title', 'Untitled')[:50] raises TypeError unless
\* the title can be sliced
TitleLogRaises(article) ==
    DictGet(article, "title", PyStr("Untitled")).t \notin {"str", "list"}

\* a handler that catches TypeError only
BATCH_HANDLER_TypeErrorOnly == "TypeError"

\* line 234: except Exception
BATCH_HANDLER == "Exception"

\* a degraded record without the error field
BatchFailureRecord_NoError(article, msg) ==
    DictSet(DictSet(article, "cities", PyList(<<>>)),
            "rationale", PyStr("Analysis failed"))

\* lines 236-241
BatchFailureRecord(article, msg) ==
    DictSet(DictSet(DictSet(article, "cities", PyList(<<>>)),
                    "rationale", PyStr("Analysis failed")),
            "error", PyStr(msg))

\* line 231: i < len(articles) - 1
PauseAfter(idx, n) == idx < n - 1

----------------------------------------------------------------------------
\* analyze_locations

\* a slice that stops one article short
BatchAt_OneShort(arts, start) == Slice(arts, start, start + BATCH_SIZE - 1)

\* line 264: articles[i:i + BATCH_SIZE]
BatchAt(arts, start) == Slice(arts, start, start + BATCH_SIZE)

\* a pause after the last batch too when it is full
BatchPauseAfter_Inclusive(start, n) == start + BATCH_SIZE <= n

\* line 271: i + BATCH_SIZE < len(articles)
BatchPauseAfter(start, n) == start + BATCH_SIZE < n

----------------------------------------------------------------------------
\* Inputs

\* an entry as collector.parse_fox_news_feed builds it, reduced to the keys
\* the analyzer reads
GoodArticle == [title |-> PyStr("a"), categories |-> PyList(<<PyStr("us")>>)]

\* a feed tag without a term gives a None among the categories
BadCategoriesArticle == [title |-> PyStr("b"), categories |-> PyList(<<PyNone>>)]

ArticleKinds == {GoodArticle, BadCategoriesArticle}

\* a record that already carries annotation fields, as the output of an
\* earlier run does
AnnotatedArticle ==
    [title |-> PyStr("c"), categories |-> PyList(<<>>),
     cities |-> PyList(<<PyStr("Old")>>), rationale |-> PyStr("old"),
     error |-> PyStr("old error")]

SeqsUpTo(S, n) == UNION {[1..k -> S] : k \in 0..n}

\* what self.client.chat.completions.create(...) can do
RaiseReply == [kind |-> "raise", desc |-> "Connection error."]

NoneReply == [kind |-> "none"]

TextReply(content) == [kind |-> "text", content |-> content]

CoreReplies ==
    {RaiseReply, NoneReply} \cup
    {TextReply(c) : c \in {<<"Ofull">>, <<"Onocities">>, <<"Onorat">>,
                           <<"Otypes">>, <<"P">>}}

----------------------------------------------------------------------------
\* collector.py: fetch_feed, parse_fox_news_feed, collect_articles

\* collector.py line 41: the default of MAX_ARTICLES_PER_FEED
MAX_ARTICLES_PER_FEED == 5

\* collector.py line 49: stop=stop_after_attempt(3)
FETCH_MAX_ATTEMPTS == 3

\* collector.py line 51: retry=retry_if_exception_type((Exception))
FETCH_RETRY_ON == "Exception"

\* collector.py line 134: except Exception
COLLECT_HANDLER == "Exception"

\* a feed that reports no parse error
OkFeed(entries) == [bozo_exception |-> PyNone, entries |-> entries]

\* a feed that reports a parse error
BozoFeed == [bozo_exception |-> PyStr("not well-formed"), entries |-> <<>>]

\* before fetch_feed has returned
NoFeed == [bozo_exception |-> PyNone, entries |-> <<>>, unset |-> TRUE]

\* a check that lets every feed through
FeedRaises_Never(f) == FALSE

\* collector.py line 69: if feed.get("bozo_exception")
FeedRaises(f) == f.bozo_exception # PyNone

\* collector.py lines 90-92: the terms of the tags that have one
RECURSIVE Terms(_)
Terms(tags) ==
    IF tags = <<>> THEN <<>>
    ELSE (IF "term" \in DOMAIN Head(tags) THEN <<Head(tags)["term"]>> ELSE <<>>)
         \o Terms(Tail(tags))

\* collector.py lines 89-92
Categories(entry) ==
    IF "tags" \in DOMAIN entry THEN PyList(Terms(entry["tags"])) ELSE PyList(<<>>)

\* collector.py lines 95-99
Content(entry) ==
    IF "content" \in DOMAIN entry /\ entry["content"] # <<>>
    THEN entry["content"][1]["value"]
    ELSE IF "summary" \in DOMAIN entry THEN entry["summary"] ELSE PyStr("")

\* collector.py lines 102-110: the normalized article dictionary
ArticleOf(entry) ==
    [k \in {"title", "published", "description", "content", "link",
            "categories", "source"} |->
        CASE k = "title" -> DictGet(entry, "title", PyStr(""))
          [] k = "published" -> DictGet(entry, "published", PyStr(""))
          [] k = "description" -> DictGet(entry, "description", PyStr(""))
          [] k = "content" -> Content(entry)
          [] k = "link" -> DictGet(entry, "link", PyStr(""))
          [] k = "categories" -> Categories(entry)
          [] k = "source" -> PyStr("fox_news")]

\* a feed read one entry past the maximum
ParseFoxNewsFeed_OneMore(f) ==
    LET taken == Slice(f.entries, 0, MAX_ARTICLES_PER_FEED + 1)
    IN  [k \in 1..Len(taken) |-> ArticleOf(taken[k])]

\* collector.py lines 86-114: parse_fox_news_feed
ParseFoxNewsFeed(f) ==
    LET taken == Slice(f.entries, 0, MAX_ARTICLES_PER_FEED)
    IN  [k \in 1..Len(taken) |-> ArticleOf(taken[k])]

\* an entry with every field, a tag without a term among its tags
FullEntry ==
    [title |-> PyStr("a"), published |-> PyStr("Mon"),
     description |-> PyStr("d"), link |-> PyStr("http://a"),
     summary |-> PyStr("s"),
     tags |-> <<[term |-> PyStr("us")], [label |-> PyStr("x")]>>,
     content |-> <<[value |-> PyStr("body")]>>]

\* an entry with a link only
BareEntry == [link |-> PyStr("http://b")]

\* an entry with an empty content list, a summary, and a tag whose term
\* is None
UntermedEntry ==
    [title |-> PyStr("c"), summary |-> PyStr("s3"),
     tags |-> <<[term |-> PyNone]>>, content |-> <<>>]

EntryKinds == {FullEntry, BareEntry, UntermedEntry}

----------------------------------------------------------------------------
\* Initial states

\* every article kind, every kind of reply, up to two batches
InitShort ==
    /\ articles \in SeqsUpTo(ArticleKinds, MaxArticles)
    /\ svcReplies = CoreReplies

\* longer lists, against a service that always answers well or always fails
InitLong ==
    /\ articles \in SeqsUpTo(ArticleKinds, MaxBatchArticles)
    /\ svcReplies \in {{TextReply(<<"Ofull">>)}, {RaiseReply}}

\* longer response texts: an object in a json fence between prose, an
\* object after prose, a fence that is never closed after prose
ExampleTexts ==
    {<<"P", "W", "FJ", "W", "Ofull", "W", "F", "W", "P">>,
     <<"P", "W", "Ofull">>,
     <<"P", "W", "FJ", "W", "Ofull">>}

\* one article, against every response text of up to MaxTextLen tokens
InitTexts ==
    /\ articles = <<GoodArticle>>
    /\ svcReplies \in {{TextReply(c)} :
                          c \in SeqsUpTo(Tokens, MaxTextLen) \cup ExampleTexts}

\* a batch of records that are annotated already
InitRerun ==
    /\ articles \in [1..2 -> {AnnotatedArticle, BadCategoriesArticle}]
    /\ svcReplies = CoreReplies

Init ==
    /\ \/ InitShort
       \/ InitLong
       \/ InitTexts
       \/ InitRerun
    /\ given = articles
    /\ feedReplies = {}
    /\ fetch_attempt = 0
    /\ feed = NoFeed
    /\ all_articles = <<>>
    /\ pc = "loop"
    /\ i = 0
    /\ j = 0
    /\ attempt = 0
    /\ batch_results = <<>>
    /\ results = <<>>
    /\ returned = <<>>
    /\ trace = <<>>

----------------------------------------------------------------------------
\* Steps of analyze_locations -> analyze_batch -> analyze_article

batch == BatchAt(articles, i)

\* the batch walked from its end
article_FromEnd == batch[Len(batch) - j]

\* line 224: for i, article in enumerate(articles)
article == batch[j + 1]

Event(ev, idx, n) == [ev |-> ev, idx |-> idx, n |-> n]

\* a loop that also takes a batch at the end of the list
StartBatch_Inclusive ==
    /\ pc = "loop"
    /\ i <= Len(articles)
    /\ pc' = "batch"
    /\ j' = 0
    /\ batch_results' = <<>>
    /\ trace' = Append(trace, Event("batch", i, Len(batch)))
    /\ UNCHANGED <<articles, given, cvars, svcReplies, i, attempt, results, returned>>

\* line 263-267: the for loop takes the next batch and calls analyze_batch
StartBatch ==
    /\ pc = "loop"
    /\ i < Len(articles)
    /\ pc' = "batch"
    /\ j' = 0
    /\ batch_results' = <<>>
    /\ trace' = Append(trace, Event("batch", i, Len(batch)))
    /\ UNCHANGED <<articles, given, cvars, svcReplies, i, attempt, results, returned>>

\* lines 275-276: the for loop is exhausted
Return ==
    /\ pc = "loop"
    /\ i >= Len(articles)
    /\ pc' = "done"
    /\ returned' = results
    /\ UNCHANGED <<articles, given, cvars, svcReplies, i, j, attempt, batch_results, results, trace>>

\* a handler that logs the exception and raises it again
RaisedInBatch_Reraise(cls, msg, evs) ==
    /\ pc' = "raised"
    /\ trace' = trace \o evs
    /\ UNCHANGED <<articles, j, batch_results>>

\* lines 234-241: an exception of class cls reaches analyze_batch's try
\* block while article j is processed; evs are the events that led to it
RaisedInBatch(cls, msg, evs) ==
    IF Handles(BATCH_HANDLER, cls)
    THEN /\ batch_results' = Append(batch_results, BatchFailureRecord(article, msg))
         /\ articles' = [articles EXCEPT ![i + j + 1] =
                             InputAfterWrite(article, BatchFailureRecord(article, msg))]
         /\ trace' = trace \o evs \o <<Event("except", i + j, 0),
                                         Event("append", i + j, 0)>>
         /\ j' = j + 1
         /\ pc' = "batch"
    ELSE /\ pc' = "raised"
         /\ trace' = trace \o evs
         /\ UNCHANGED <<articles, j, batch_results>>

\* a retry wrapper that stops one attempt late
BodyRaised_OneMore(cls, msg, evs) ==
    IF Handles(RETRY_ON, cls)
    THEN IF attempt <= MAX_ATTEMPTS
         THEN /\ pc' = "backoff"
              /\ trace' = trace \o evs
              /\ UNCHANGED <<articles, j, batch_results>>
         ELSE RaisedInBatch("RetryError", "RetryError", evs)
    ELSE RaisedInBatch(cls, msg, evs)

\* lines 112-116: an exception of class cls leaves the body of
\* analyze_article; tenacity retries it or gives up
BodyRaised(cls, msg, evs) ==
    IF Handles(RETRY_ON, cls)
    THEN IF attempt < MAX_ATTEMPTS
         THEN /\ pc' = "backoff"
              /\ trace' = trace \o evs
              /\ UNCHANGED <<articles, j, batch_results>>
         ELSE RaisedInBatch("RetryError", "RetryError", evs)
    ELSE RaisedInBatch(cls, msg, evs)

\* lines 224-227: the next article of the batch; logging its title may
\* raise; otherwise analyze_article is called
StartArticle ==
    /\ pc = "batch"
    /\ j < Len(batch)
    /\ IF TitleLogRaises(article)
       THEN RaisedInBatch("TypeError", "object is not subscriptable", <<>>)
       ELSE /\ pc' = "attempt"
            /\ UNCHANGED <<articles, batch_results, trace, j>>
    /\ attempt' = IF TitleLogRaises(article) THEN attempt ELSE 1
    /\ UNCHANGED <<given, cvars, svcReplies, i, results, returned>>

\* lines 134-139: one attempt of the retry wrapper starts and builds the
\* prompt
Attempt ==
    /\ pc = "attempt"
    /\ IF PromptRaises(article)
       THEN BodyRaised("TypeError", "sequence item: expected str instance",
                       <<Event("attempt", i + j, attempt)>>)
       ELSE /\ pc' = "call"
            /\ trace' = Append(trace, Event("attempt", i + j, attempt))
            /\ UNCHANGED <<articles, j, batch_results>>
    /\ UNCHANGED <<given, cvars, svcReplies, i, attempt, results, returned>>

\* lines 141-207 and 228-232: the service call ends and the rest of the
\* body runs; a returned record is appended by analyze_batch
ServiceCall ==
    /\ pc = "call"
    /\ \E reply \in svcReplies :
         LET out == AnalyzeReply(article, reply)
             call == [ev |-> "call", idx |-> i + j, n |-> attempt, reply |-> reply,
                      art |-> article]
         IN  IF out.raised
             THEN BodyRaised(out.cls, out.msg, <<call>>)
             ELSE /\ batch_results' = Append(batch_results, out.rec)
                  /\ articles' = [articles EXCEPT ![i + j + 1] =
                                      InputAfterWrite(article, out.rec)]
                  /\ trace' = trace \o <<call, Event("append", i + j, 1)>>
                  /\ IF PauseAfter(j, Len(batch))
                     THEN pc' = "pause" /\ j' = j
                     ELSE pc' = "batch" /\ j' = j + 1
    /\ UNCHANGED <<given, cvars, svcReplies, i, attempt, results, returned>>

\* tenacity sleeps between two attempts
Backoff ==
    /\ pc = "backoff"
    /\ trace' = Append(trace, Event("backoff", i + j, BackoffWait(attempt)))
    /\ attempt' = attempt + 1
    /\ pc' = "attempt"
    /\ UNCHANGED <<articles, given, cvars, svcReplies, i, j, batch_results, results, returned>>

\* line 232: time.sleep(1)
Pause ==
    /\ pc = "pause"
    /\ trace' = Append(trace, Event("pause", i + j, INTRA_BATCH_DELAY))
    /\ j' = j + 1
    /\ pc' = "batch"
    /\ UNCHANGED <<articles, given, cvars, svcReplies, i, attempt, batch_results, results, returned>>

\* lines 243 and 268-271: analyze_batch returns, its results are appended
EndBatch ==
    /\ pc = "batch"
    /\ j >= Len(batch)
    /\ results' = results \o batch_results
    /\ IF BatchPauseAfter(i, Len(articles))
       THEN pc' = "batch_pause" /\ i' = i
       ELSE pc' = "loop" /\ i' = i + BATCH_SIZE
    /\ UNCHANGED <<articles, given, cvars, svcReplies, j, attempt, batch_results, returned, trace>>

\* line 273: time.sleep(INTER_BATCH_DELAY)
BatchPause ==
    /\ pc = "batch_pause"
    /\ trace' = Append(trace, Event("batch_pause", i, INTER_BATCH_DELAY))
    /\ i' = i + BATCH_SIZE
    /\ pc' = "loop"
    /\ UNCHANGED <<articles, given, cvars, svcReplies, j, attempt, batch_results, results, returned>>

Next ==
    \/ StartBatch
    \/ Return
    \/ StartArticle
    \/ Attempt
    \/ ServiceCall
    \/ Backoff
    \/ Pause
    \/ EndBatch
    \/ BatchPause

Spec == Init /\ [][Next]_vars

----------------------------------------------------------------------------
\* run(): collect_articles, then analyze_locations on what it returned

\* a feed of up to MaxEntries entries that feedparser may also fail to
\* parse, or a feed it never parses; the service answers well
InitRun ==
    /\ feedReplies \in
          {{OkFeed(es), BozoFeed} : es \in SeqsUpTo(EntryKinds, MaxEntries)}
          \cup {{BozoFeed}}
    /\ svcReplies = {TextReply(<<"Ofull">>)}
    /\ fetch_attempt = 1
    /\ feed = NoFeed
    /\ all_articles = <<>>
    /\ articles = <<>>
    /\ given = <<>>
    /\ pc = "fetch"
    /\ i = 0
    /\ j = 0
    /\ attempt = 0
    /\ batch_results = <<>>
    /\ results = <<>>
    /\ returned = <<>>
    /\ trace = <<>>

\* collector.py lines 66-73 and 127-135: one attempt of fetch_feed; the
\* feed that reports an error raises, tenacity retries or gives up and
\* collect_articles catches; the feed without error is parsed
FetchAttempt ==
    /\ pc = "fetch"
    /\ \E reply \in feedReplies :
          /\ trace' = Append(trace, [ev |-> "fetch", idx |-> -1,
                                     n |-> fetch_attempt, reply |-> reply])
          /\ IF FeedRaises(reply)
             THEN IF Handles(FETCH_RETRY_ON, "Exception")
                     /\ fetch_attempt < FETCH_MAX_ATTEMPTS
                  THEN /\ pc' = "fetch_backoff"
                       /\ UNCHANGED <<feed, all_articles>>
                  ELSE /\ pc' = IF Handles(COLLECT_HANDLER, "RetryError")
                                THEN "collected" ELSE "raised"
                       /\ UNCHANGED <<feed, all_articles>>
             ELSE /\ feed' = reply
                  /\ all_articles' = all_articles \o ParseFoxNewsFeed(reply)
                  /\ pc' = "collected"
    /\ UNCHANGED <<feedReplies, fetch_attempt, articles, given, svcReplies, i, j,
                   attempt, batch_results, results, returned>>

\* collector.py line 50: tenacity sleeps between two attempts of fetch_feed
FetchBackoff ==
    /\ pc = "fetch_backoff"
    /\ trace' = Append(trace, Event("fetch_backoff", -1, BackoffWait(fetch_attempt)))
    /\ fetch_attempt' = fetch_attempt + 1
    /\ pc' = "fetch"
    /\ UNCHANGED <<feedReplies, feed, all_articles, articles, given, svcReplies,
                   i, j, attempt, batch_results, results, returned>>

\* run_locator.py lines 82-93: collect_articles returned all_articles and
\* run() passes the list to analyze_locations
RunAnalyze ==
    /\ pc = "collected"
    /\ articles' = all_articles
    /\ given' = all_articles
    /\ pc' = "loop"
    /\ UNCHANGED <<cvars, svcReplies, i, j, attempt, batch_results, results,
                   returned, trace>>

NextRun ==
    \/ FetchAttempt
    \/ FetchBackoff
    \/ RunAnalyze
    \/ Next

SpecRun == InitRun /\ [][NextRun]_vars

\* analyze_locations when every service call returns or fails and every
\* sleep ends: the single thread always takes its next step
\* the lists of up to MaxArticles articles and the annotated ones, against
\* every kind of reply
InitFair == Init /\ (InitShort \/ InitRerun)

SpecFair == InitFair /\ [][Next]_vars /\ WF_vars(Next)

----------------------------------------------------------------------------
\* Reading the history

\* the records produced so far, in order
AllResults ==
    IF pc \in {"batch", "attempt", "call", "backoff", "pause"}
    THEN results \o batch_results
    ELSE results

\* positions of the trace holding an event ev of article idx
Positions(ev, idx) ==
    {p \in 1..Len(trace) : trace[p].ev = ev /\ trace[p].idx = idx}

Count(ev, idx) == Cardinality(Positions(ev, idx))

\* the calls made so far, as trace positions
CallPositions == {p \in 1..Len(trace) : trace[p].ev = "call"}

AnnotationKeys == {"cities", "rationale", "error"}

EmptyCities == PyList(<<>>)

\* rec is art extended by annotation fields: every other key is untouched
IsAnnotatedCopy(rec, art) ==
    /\ {"cities", "rationale"} \subseteq DOMAIN rec
    /\ DOMAIN art \subseteq DOMAIN rec
    /\ DOMAIN rec \subseteq (DOMAIN art) \cup AnnotationKeys
    /\ \A k \in (DOMAIN art) \ AnnotationKeys : rec[k] = art[k]

----------------------------------------------------------------------------
\* C1: analyze_locations returns exactly one record per input article, in
\* input order: the k-th record is the annotated copy of the k-th article,
\* whatever mix of outcomes (annotation, malformed response, failed call,
\* exception out of analyze_article) the articles had.
C1_OneRecordPerArticleInOrder ==
    /\ Len(AllResults) <= Len(articles)
    /\ \A k \in 1..Len(AllResults) : IsAnnotatedCopy(AllResults[k], articles[k])
    /\ pc = "done" =>
         /\ Len(returned) = Len(articles)
         /\ \A k \in 1..Len(returned) : IsAnnotatedCopy(returned[k], articles[k])

\* a finished run of two batches that saw a success, a malformed response,
\* a failed call and an exception caught in analyze_batch
C1_Witness ==
    /\ pc = "done"
    /\ Len(returned) = MaxArticles
    /\ \E a, b, c, d \in 1..Len(returned) :
         /\ returned[a]["rationale"] = PyStr("r")
         /\ returned[b]["rationale"] = PyStr("Error parsing analysis results")
         /\ returned[c]["rationale"] = PyStr("Error: Connection error.")
         /\ returned[d]["rationale"] = PyStr("Analysis failed")
         /\ articles[a] # articles[d]

\* C2: analyze_locations never raises to its caller: no exception leaves
\* analyze_batch, even when every service call of the run fails.
C2_NeverRaises == pc # "raised"

\* a run over more than one batch that returned although every article's
\* service call failed
C2_Witness ==
    /\ pc = "done"
    /\ Len(articles) > BATCH_SIZE
    /\ \A idx \in 0..(Len(articles) - 1) : Count("call", idx) >= 1
    /\ \A p \in CallPositions : trace[p].reply.kind = "raise"

\* C3 as stated: in every record cities is a list and rationale a non-empty
\* string, whatever the service answered.
C3_AlwaysListAndNonEmptyString ==
    \A k \in 1..Len(AllResults) :
        /\ AllResults[k]["cities"].t = "list"
        /\ AllResults[k]["rationale"].t = "str"
        /\ AllResults[k]["rationale"].s # ""

\* the object the response of call p decoded to, if it decoded to one
DecodedObject(p) ==
    LET reply == trace[p].reply
        loaded == IF reply.kind = "text"
                  THEN JsonLoads(ExtractJson(reply.content))
                  ELSE [ok |-> FALSE]
    IN  IF loaded.ok /\ loaded.val.t = "dict"
        THEN [some |-> TRUE, d |-> loaded.val.d]
        ELSE [some |-> FALSE]

\* record k took the value of key from the object the service returned
SuppliedByResponse(k, key) ==
    \E p \in Positions("call", k - 1) :
        /\ DecodedObject(p).some
        /\ key \in DOMAIN DecodedObject(p).d
        /\ DecodedObject(p).d[key] = AllResults[k][key]

\* C3 amended: every record has a cities and a rationale field; cities is a
\* list and rationale a non-empty string unless the decoded response object
\* itself supplied the value, which is then passed through as it is.
C3_ListAndNonEmptyUnlessSupplied ==
    \A k \in 1..Len(AllResults) :
        /\ {"cities", "rationale"} \subseteq DOMAIN AllResults[k]
        /\ \/ AllResults[k]["cities"].t = "list"
           \/ SuppliedByResponse(k, "cities")
        /\ \/ /\ AllResults[k]["rationale"].t = "str"
              /\ AllResults[k]["rationale"].s # ""
           \/ SuppliedByResponse(k, "rationale")

\* a finished run holding a defaulted record, a record of a failed call, a
\* record of a caught exception, and a record whose ill-typed fields came
\* from the response
C3_Witness ==
    /\ pc = "done"
    /\ \E a, c, d, e \in 1..Len(returned) :
         /\ returned[a]["rationale"] = PyStr("No rationale provided")
         /\ returned[c]["rationale"] = PyStr("Error: Connection error.")
         /\ returned[d]["rationale"] = PyStr("Analysis failed")
         /\ returned[e]["cities"] = PyStr("Paris")
         /\ returned[e]["rationale"] = PyStr("")

\* the response of call p is text that json.loads rejects
Unparsable(p) ==
    /\ trace[p].reply.kind = "text"
    /\ ~JsonLoads(ExtractJson(trace[p].reply.content)).ok

\* article k (from 1) failed or was degraded: an exception was caught in
\* analyze_batch, its service call failed, or the response was unparsable
FailedOrDegraded(k) ==
    \/ Positions("except", k - 1) # {}
    \/ \E p \in Positions("call", k - 1) :
           trace[p].reply.kind = "raise" \/ Unparsable(p)

\* C4 as stated: every failed or degraded article's record carries an error
\* string, and a failed service call gives cities = [], rationale =
\* "Error: <description>" and error = <description>.
C4_FailureCarriesError ==
    \A k \in 1..Len(AllResults) :
        /\ FailedOrDegraded(k) =>
             /\ "error" \in DOMAIN AllResults[k]
             /\ AllResults[k]["error"].t = "str"
        /\ \A p \in Positions("call", k - 1) :
             trace[p].reply.kind = "raise" =>
                 /\ AllResults[k]["cities"] = EmptyCities
                 /\ AllResults[k]["rationale"] = PyStr("Error: " \o trace[p].reply.desc)
                 /\ "error" \in DOMAIN AllResults[k]
                 /\ AllResults[k]["error"] = PyStr(trace[p].reply.desc)

\* C5 as stated: a service call that raises is retried: the article is
\* finished only after a later attempt called the service again or after
\* MAX_ATTEMPTS attempts were made.
C5_FailedCallIsRetried ==
    \A k \in 1..Len(AllResults) :
        \A p \in Positions("call", k - 1) :
            trace[p].reply.kind = "raise" =>
                \/ Count("attempt", k - 1) = MAX_ATTEMPTS
                \/ \E q \in Positions("call", k - 1) : q > p

\* C6: an unparsable response degrades the article at once and without
\* raising: its record has cities = [], rationale = "Error parsing analysis
\* results" and error = the parser's message, and the article gets no
\* second attempt and no second service call.
C6_ParseErrorIsSingleShot ==
    \A p \in CallPositions :
        Unparsable(p) =>
            LET k == trace[p].idx + 1
            IN  /\ Len(AllResults) >= k
                /\ IsAnnotatedCopy(AllResults[k], articles[k])
                /\ AllResults[k]["cities"] = EmptyCities
                /\ AllResults[k]["rationale"] = PyStr("Error parsing analysis results")
                /\ "error" \in DOMAIN AllResults[k]
                /\ AllResults[k]["error"] =
                       PyStr(JsonLoads(ExtractJson(trace[p].reply.content)).msg)
                /\ Count("call", k - 1) = 1
                /\ Count("attempt", k - 1) = 1
                /\ Count("except", k - 1) = 0

\* a finished run in which an article that is not the last one got an
\* unparsable response
C6_Witness ==
    /\ pc = "done"
    /\ \E p \in CallPositions :
         /\ Unparsable(p)
         /\ trace[p].idx + 1 < Len(articles)

\* the retry-wrapped analyze_article raised for article idx (from 0)
AnalyzeArticleRaised(idx) ==
    /\ Positions("except", idx) # {}
    /\ Positions("attempt", idx) # {}

\* C7: when the retry-wrapped analyze_article raises, all MAX_ATTEMPTS
\* attempts were made, analyze_batch appends exactly one record with
\* cities = [], rationale = "Analysis failed" and error = the description,
\* and every later article of the run is still processed.
C7_ExhaustedRetriesDegradeOneArticle ==
    \A idx \in 0..(Len(articles) - 1) :
        AnalyzeArticleRaised(idx) =>
            /\ Count("attempt", idx) = MAX_ATTEMPTS
            /\ Count("except", idx) = 1
            /\ Count("append", idx) = 1
            /\ Len(AllResults) >= idx + 1
            /\ IsAnnotatedCopy(AllResults[idx + 1], articles[idx + 1])
            /\ AllResults[idx + 1]["cities"] = EmptyCities
            /\ AllResults[idx + 1]["rationale"] = PyStr("Analysis failed")
            /\ "error" \in DOMAIN AllResults[idx + 1]
            /\ AllResults[idx + 1]["error"] = PyStr("RetryError")
            /\ pc = "done" =>
                 \A later \in (idx + 1)..(Len(articles) - 1) :
                     /\ Count("append", later) = 1
                     /\ articles[later + 1] = GoodArticle =>
                            Count("call", later) = 1

\* a finished run in which analyze_article raised for an article of the
\* first batch and a later article, in the next batch, was annotated
C7_Witness ==
    /\ pc = "done"
    /\ \E idx \in 0..(BATCH_SIZE - 1) :
         /\ AnalyzeArticleRaised(idx)
         /\ \E later \in BATCH_SIZE..(Len(articles) - 1) :
              returned[later + 1]["rationale"] = PyStr("r")

CeilDiv(n, d) == (n + d - 1) \div d

\* the batch-level history the claim describes for n articles: for batch b
\* of CeilDiv(n, 3), its start, its articles in order, and a pause after
\* every batch but the last
RECURSIVE ClaimedBatches(_, _)
ClaimedBatches(b, n) ==
    LET nb == CeilDiv(n, BATCH_SIZE)
        size == IF b < nb THEN BATCH_SIZE ELSE n - BATCH_SIZE * (nb - 1)
        first == BATCH_SIZE * (b - 1)
    IN  IF b > nb THEN <<>>
        ELSE <<Event("batch", first, size)>>
             \o [m \in 1..size |-> Event("append", first + m - 1, 0)]
             \o (IF b < nb
                 THEN <<Event("batch_pause", first, INTER_BATCH_DELAY)>>
                 ELSE <<>>)
             \o ClaimedBatches(b + 1, n)

IsBatchLevel(e) == e.ev \in {"batch", "append", "batch_pause"}

\* the batches, appended articles and inter-batch pauses of the run so far
BatchHistory ==
    LET sel == SelectSeq(trace, IsBatchLevel)
    IN  [p \in 1..Len(sel) |-> Event(sel[p].ev, sel[p].idx, IF sel[p].ev = "append"
                                                            THEN 0 ELSE sel[p].n)]

IsPrefix(s, t) == Len(s) <= Len(t) /\ s = SubSeq(t, 1, Len(s))

\* C8: N articles are processed as CeilDiv(N, 3) contiguous batches in input
\* order, all of size 3 but the last, with a pause of INTER_BATCH_DELAY
\* seconds after every batch but the last and none after the last.
C8_BatchesAndPauses ==
    /\ IsPrefix(BatchHistory, ClaimedBatches(1, Len(articles)))
    /\ pc = "done" => BatchHistory = ClaimedBatches(1, Len(articles))

\* a finished run of MaxBatchArticles articles: sizes 3, 3, 1 with two
\* pauses
C8_Witness ==
    /\ pc = "done"
    /\ Len(articles) = MaxBatchArticles
    /\ Cardinality({p \in 1..Len(trace) : trace[p].ev = "batch_pause"})
           = CeilDiv(MaxBatchArticles, BATCH_SIZE) - 1

\* article idx (from 0) is the last of its batch
LastOfBatch(idx) ==
    \/ idx % BATCH_SIZE = BATCH_SIZE - 1
    \/ idx = Len(articles) - 1

\* C9 as stated: whatever the outcome of an article, a 1-second pause
\* follows it unless it is the last of its batch, and none follows the last.
C9_PauseAfterEveryArticleButLast ==
    \A p \in 1..(Len(trace) - 1) :
        trace[p].ev = "append" =>
            IF LastOfBatch(trace[p].idx)
            THEN trace[p + 1].ev # "pause"
            ELSE /\ trace[p + 1].ev = "pause"
                 /\ trace[p + 1].n = INTRA_BATCH_DELAY

\* C10: when the response decodes to an object, a missing cities key gives
\* cities = [], a missing rationale key gives rationale = "No rationale
\* provided", present keys are passed through unchanged, and the record
\* gets no error field.
C10_DefaultFilling ==
    \A p \in CallPositions :
        DecodedObject(p).some =>
            LET k == trace[p].idx + 1
                d == DecodedObject(p).d
            IN  /\ Len(AllResults) >= k
                /\ IsAnnotatedCopy(AllResults[k], articles[k])
                /\ AllResults[k]["cities"] =
                       (IF "cities" \in DOMAIN d THEN d["cities"] ELSE EmptyCities)
                /\ AllResults[k]["rationale"] =
                       (IF "rationale" \in DOMAIN d THEN d["rationale"]
                        ELSE PyStr("No rationale provided"))
                /\ "error" \in DOMAIN AllResults[k] <=> "error" \in DOMAIN articles[k]

\* a finished run with a response lacking cities and one lacking rationale
C10_Witness ==
    /\ pc = "done"
    /\ \E p, q \in CallPositions :
         /\ DecodedObject(p).some
         /\ DOMAIN DecodedObject(p).d = {"rationale"}
         /\ DecodedObject(q).some
         /\ DOMAIN DecodedObject(q).d = {"cities"}

\* content holds a complete fenced block: a ```json and a later ```
HasClosedFence(content) ==
    \E a, b \in 1..Len(content) :
        a < b /\ content[a] = "FJ" /\ content[b] \in FenceTokens

\* what lies inside the first complete fenced block
FencedPart(content) ==
    LET a == CHOOSE x \in 1..Len(content) :
                 /\ content[x] = "FJ"
                 /\ \E b \in (x + 1)..Len(content) : content[b] \in FenceTokens
                 /\ \A y \in 1..(x - 1) : content[y] # "FJ"
        b == CHOOSE x \in (a + 1)..Len(content) :
                 /\ content[x] \in FenceTokens
                 /\ \A y \in (a + 1)..(x - 1) : content[y] \notin FenceTokens
    IN  SubSeq(content, a + 1, b - 1)

\* content from its first brace on, or content itself when it has none
FromFirstBrace(content) ==
    IF \E k \in 1..Len(content) : content[k] \in BraceTokens
    THEN LET k == CHOOSE x \in 1..Len(content) :
                      /\ content[x] \in BraceTokens
                      /\ \A y \in 1..(x - 1) : content[y] \notin BraceTokens
         IN  SubSeq(content, k, Len(content))
    ELSE content

\* the text C11 says is parsed: the fenced part if there is a fenced block,
\* else the text from its first brace
ClaimedParsedText(content) ==
    IF HasClosedFence(content) THEN FencedPart(content)
    ELSE FromFirstBrace(content)

\* the text the code parses: as claimed, except that a ```json that is
\* never closed makes it parse the whole text, without looking for a brace
AmendedParsedText(content) ==
    IF HasClosedFence(content) THEN FencedPart(content)
    ELSE IF \E k \in 1..Len(content) : content[k] = "FJ" THEN content
    ELSE FromFirstBrace(content)

\* the record of call p is what parsing `text` gives: the object's cities
\* (or [] when it has none), and cities = [] with a populated error when
\* json.loads rejects the text
RecordFollowsFrom(p, text) ==
    LET k == trace[p].idx + 1
        loaded == JsonLoads(text)
    IN  /\ Len(AllResults) >= k
        /\ (loaded.ok /\ loaded.val.t = "dict") =>
               AllResults[k]["cities"] =
                   (IF "cities" \in DOMAIN loaded.val.d
                    THEN loaded.val.d["cities"] ELSE EmptyCities)
        /\ (loaded.ok /\ loaded.val.t # "dict") =>
               AllResults[k]["cities"] = EmptyCities
        /\ ~loaded.ok =>
               /\ AllResults[k]["cities"] = EmptyCities
               /\ "error" \in DOMAIN AllResults[k]
               /\ AllResults[k]["error"].t = "str"
               /\ AllResults[k]["error"].s # ""

TextCalls == {p \in CallPositions : trace[p].reply.kind = "text"}

\* C11 as stated: the fenced content is parsed if the text holds a fenced
\* json block, otherwise the text from its first brace, otherwise the raw
\* text; a valid object found that way gives its cities and an unparsable
\* text gives cities = [] and an error.
C11_FenceThenBraceThenRaw ==
    \A p \in TextCalls : RecordFollowsFrom(p, ClaimedParsedText(trace[p].reply.content))

\* C11 amended: as stated, except that a text holding ```json with no
\* closing ``` after it is parsed whole, with no search for a brace.
C11_FenceThenWholeThenBraceThenRaw ==
    \A p \in TextCalls : RecordFollowsFrom(p, AmendedParsedText(trace[p].reply.content))

\* a finished run whose response was an object in a json fence between
\* prose, and gave that object's cities
C11_Witness ==
    /\ pc = "done"
    /\ \E p \in TextCalls :
         /\ trace[p].reply.content = <<"P", "W", "FJ", "W", "Ofull", "W", "F", "W", "P">>
         /\ returned[trace[p].idx + 1]["cities"] = PyList(<<PyStr("Paris")>>)

\* C12: analyze_locations never changes its input records: the input list
\* keeps the value it was given, and every output record is its input
\* record with cities, rationale and possibly error set and every other
\* key as it was, on success and on every failure path.
C12_InputNeverMutated ==
    /\ articles = given
    /\ \A k \in 1..Len(AllResults) : IsAnnotatedCopy(AllResults[k], given[k])
    /\ pc = "done" =>
         \A k \in 1..Len(returned) : IsAnnotatedCopy(returned[k], given[k])

\* a finished run over records that had annotation fields already, one
\* annotated anew and one degraded in analyze_batch
C12_Witness ==
    /\ pc = "done"
    /\ Len(returned) = 2
    /\ given[1] = AnnotatedArticle
    /\ returned[1]["cities"] = PyList(<<PyStr("Paris")>>)
    /\ returned[1]["title"] = PyStr("c")
    /\ returned[2]["rationale"] = PyStr("Analysis failed")
    /\ articles[1]["cities"] = PyList(<<PyStr("Old")>>)

C14_ErrorOnlyWhenDegraded ==
    \A k \in 1..Len(AllResults) :
        LET rec == AllResults[k]
            same == IF "error" \in DOMAIN given[k]
                    THEN "error" \in DOMAIN rec /\ rec["error"] = given[k]["error"]
                    ELSE "error" \notin DOMAIN rec
        IN  /\ ~same => FailedOrDegraded(k)
            /\ (\E p \in Positions("call", k - 1) : DecodedObject(p).some) => same

\* a finished run with a default-filled record that has no error, a record
\* degraded with an error, and an input that came with an error of its own
C14_Witness ==
    /\ pc = "done"
    /\ \E a, b \in 1..Len(returned) :
         /\ returned[a]["rationale"] = PyStr("No rationale provided")
         /\ "error" \in DOMAIN returned[a]
         /\ returned[a]["error"] = PyStr("old error")
         /\ returned[b]["rationale"] = PyStr("Analysis failed")
         /\ "error" \in DOMAIN returned[b]

\* C15: for every article the body of analyze_article runs at most
\* MAX_ATTEMPTS times and the service is called at most MAX_ATTEMPTS times,
\* so a run over N articles makes at most 3N service calls.
C15_BoundedAttempts ==
    /\ \A idx \in 0..(Len(given) - 1) :
         /\ Count("attempt", idx) <= MAX_ATTEMPTS
         /\ Count("call", idx) <= MAX_ATTEMPTS
    /\ Cardinality(CallPositions) <= MAX_ATTEMPTS * Len(given)

\* a finished run in which one article used all its attempts and another
\* one called the service
C15_Witness ==
    /\ pc = "done"
    /\ \E a, b \in 0..(Len(given) - 1) :
         /\ Count("attempt", a) = MAX_ATTEMPTS
         /\ Count("call", b) = 1

\* C16: execution is sequential: one call at most is outstanding, calls are
\* issued in the input order of the articles, and no attempt or call for an
\* article is made before the record of every earlier article is appended.
C16_StrictlySequential ==
    /\ pc = "call" => trace[Len(trace)].ev = "attempt"
    /\ \A p \in CallPositions :
         /\ trace[p].art = given[trace[p].idx + 1]
         /\ \A q \in CallPositions : q < p => trace[q].idx < trace[p].idx
    /\ \A p \in 1..Len(trace) :
         trace[p].ev \in {"attempt", "call"} =>
             \A earlier \in 0..(trace[p].idx - 1) :
                 \E q \in Positions("append", earlier) : q < p

\* a run with the call of its fourth article outstanding, after calls for
\* the first three
C16_Witness ==
    /\ pc = "call"
    /\ i + j = BATCH_SIZE
    /\ Cardinality(CallPositions) = BATCH_SIZE

----------------------------------------------------------------------------
\* C17

\* the kind of attempt event a backoff event belongs to
AttemptOf(ev) == IF ev = "backoff" THEN "attempt" ELSE "fetch"

BackoffPositions == {p \in 1..Len(trace) : trace[p].ev \in {"backoff", "fetch_backoff"}}

\* the attempt recorded at position p ended with an exception that left
\* the wrapped function: a fetch whose feed reports an error, or an
\* attempt of analyze_article that never reached the service call
AttemptRaisedAt(p) ==
    IF trace[p].ev = "fetch" THEN FeedRaises(trace[p].reply)
    ELSE /\ trace[p].ev = "attempt"
         /\ p < Len(trace) => trace[p + 1].ev # "call"

\* C17: every backoff delay d of analyze_article or fetch_feed has
\* 2 <= d <= 10, comes right after an attempt n < 3 of the same call that
\* raised and right before attempt n + 1 of it, every attempt after the
\* first comes right after a backoff, and a later delay of the same call
\* is no shorter than an earlier one
C17_BackoffBetweenAttempts ==
    /\ \A p \in BackoffPositions :
          /\ WAIT_MIN <= trace[p].n /\ trace[p].n <= WAIT_MAX
          /\ p > 1
          /\ trace[p - 1].ev = AttemptOf(trace[p].ev)
          /\ trace[p - 1].idx = trace[p].idx
          /\ trace[p - 1].n < MAX_ATTEMPTS
          /\ AttemptRaisedAt(p - 1)
          /\ p < Len(trace) =>
                /\ trace[p + 1].ev = AttemptOf(trace[p].ev)
                /\ trace[p + 1].idx = trace[p].idx
                /\ trace[p + 1].n = trace[p - 1].n + 1
    /\ \A p \in 1..Len(trace) :
          trace[p].ev \in {"attempt", "fetch"} /\ trace[p].n > 1 =>
             /\ p > 1
             /\ trace[p - 1].ev \in {"backoff", "fetch_backoff"}
             /\ AttemptOf(trace[p - 1].ev) = trace[p].ev
             /\ trace[p - 1].idx = trace[p].idx
    /\ \A p, q \in BackoffPositions :
          p < q /\ trace[p].ev = trace[q].ev /\ trace[p].idx = trace[q].idx =>
             trace[p].n <= trace[q].n

\* a finished run in which fetch_feed succeeded at its third attempt after
\* two delays, one article used its three attempts with two delays between
\* them, and another article was analyzed at its first attempt
C17_Witness ==
    /\ pc = "done"
    /\ Count("fetch_backoff", -1) = 2
    /\ Len(given) >= 2
    /\ \E k \in 1..Len(given) :
          Count("backoff", k - 1) = 2 /\ Count("attempt", k - 1) = MAX_ATTEMPTS
    /\ \E k \in 1..Len(given) :
          Count("attempt", k - 1) = 1 /\ Count("call", k - 1) = 1

----------------------------------------------------------------------------
\* C18

FetchPositions == {p \in 1..Len(trace) : trace[p].ev = "fetch"}

\* the feed that feedparser returned reports a parse error
ReportsError(f) == f.bozo_exception.t # "None"

\* collect_articles has returned or raised
CollectOver == pc \notin {"fetch", "fetch_backoff"}

\* C18: fetch_feed is attempted at most 3 times, numbered from 1; an
\* attempt before the third whose feed reports a parse error is followed
\* by the next attempt; an attempt whose feed reports none is the last and
\* its feed is the one returned and parsed; collect_articles never raises
\* and returns the empty list when all 3 attempts reported an error
C18_FetchRetriedAndIsolated ==
    /\ Cardinality(FetchPositions) <= FETCH_MAX_ATTEMPTS
    /\ \A p \in FetchPositions :
          /\ trace[p].n = Cardinality({q \in FetchPositions : q <= p})
          /\ ReportsError(trace[p].reply) /\ trace[p].n < FETCH_MAX_ATTEMPTS =>
                \/ ~CollectOver
                \/ \E q \in FetchPositions : q > p /\ trace[q].n = trace[p].n + 1
          /\ ~ReportsError(trace[p].reply) =>
                /\ \A q \in FetchPositions : q <= p
                /\ CollectOver
                /\ feed = trace[p].reply
                /\ all_articles = ParseFoxNewsFeed(trace[p].reply)
    /\ pc # "raised"
    /\ CollectOver /\ (\A p \in FetchPositions : ReportsError(trace[p].reply)) =>
          /\ Cardinality(FetchPositions) = FETCH_MAX_ATTEMPTS
          /\ all_articles = <<>>

\* a feed with entries was on offer, all three attempts of fetch_feed
\* reported a parse error, and run() went on with the empty list
C18_Witness ==
    /\ pc = "done"
    /\ \E f \in feedReplies : ~ReportsError(f) /\ f.entries # <<>>
    /\ Cardinality(FetchPositions) = FETCH_MAX_ATTEMPTS
    /\ \A p \in FetchPositions : ReportsError(trace[p].reply)
    /\ Count("fetch_backoff", -1) = 2
    /\ all_articles = <<>>
    /\ returned = <<>>

----------------------------------------------------------------------------
\* C19

ArticleKeys ==
    {"title", "published", "description", "content", "link", "categories", "source"}

Min(a, b) == IF a < b THEN a ELSE b

\* parse_fox_news_feed was called: fetch_feed returned a feed
FeedParsed == \E p \in FetchPositions : ~ReportsError(trace[p].reply)

\* the record made from the entry carries the entry's fields, "" for an
\* absent one, and as content the value of the first content element,
\* else the summary, else ""
MadeFrom(rec, entry) ==
    /\ \A k \in {"title", "published", "description", "link"} :
          rec[k] = IF k \in DOMAIN entry THEN entry[k] ELSE PyStr("")
    /\ rec["content"] =
          IF "content" \in DOMAIN entry /\ Len(entry["content"]) > 0
          THEN entry["content"][1]["value"]
          ELSE IF "summary" \in DOMAIN entry THEN entry["summary"] ELSE PyStr("")
    /\ "tags" \notin DOMAIN entry => rec["categories"] = PyList(<<>>)

\* C19: parse_fox_news_feed returns min(number of entries,
\* MAX_ARTICLES_PER_FEED) records, the k-th made from the k-th entry, each
\* with exactly the seven keys, source "fox_news" and a list as categories
C19_ParsedFeed ==
    FeedParsed =>
        /\ Len(all_articles) = Min(Len(feed.entries), MAX_ARTICLES_PER_FEED)
        /\ \A k \in 1..Len(all_articles) :
              /\ DOMAIN all_articles[k] = ArticleKeys
              /\ all_articles[k]["source"] = PyStr("fox_news")
              /\ all_articles[k]["categories"].t = "list"
              /\ MadeFrom(all_articles[k], feed.entries[k])

\* a feed of more than MAX_ARTICLES_PER_FEED entries, of every kind among
\* the first ones, was parsed and truncated
C19_Witness ==
    /\ FeedParsed
    /\ Len(feed.entries) > MAX_ARTICLES_PER_FEED
    /\ Len(all_articles) = MAX_ARTICLES_PER_FEED
    /\ {feed.entries[k] : k \in 1..MAX_ARTICLES_PER_FEED} = EntryKinds
    /\ feed.entries[1] # feed.entries[2]
    /\ \E k \in 1..Len(all_articles) :
          all_articles[k]["categories"] = PyList(<<PyStr("us")>>)

----------------------------------------------------------------------------
\* C20

PacingPositions == {p \in 1..Len(trace) : trace[p].ev \in {"pause", "batch_pause"}}

\* the steps taken so far stay within the bound the input list gives: at
\* most 3 attempts, one service call, one appended record and one
\* intra-batch pause per article, no more pacing pauses than articles
BoundedSteps ==
    /\ \A k \in 1..Len(given) :
          /\ Count("attempt", k - 1) <= MAX_ATTEMPTS
          /\ Count("call", k - 1) <= 1
          /\ Count("append", k - 1) <= 1
          /\ Count("pause", k - 1) <= 1
    /\ \A p \in 1..Len(trace) : trace[p].idx \in 0..(Len(given) - 1)
    /\ Cardinality(PacingPositions) <= Len(given)
    /\ Len(trace) <= 9 * Len(given)

\* C20: when every call returns or fails and every sleep ends,
\* analyze_locations eventually returns, and the whole run has stayed
\* within at most 3 attempts and one pacing pause per article (the
\* history only grows, so the bound at the return bounds every step)
C20_Terminates == <>(pc = "done" /\ BoundedSteps)

\* analyze_locations returned after two batches in which one article used
\* its three attempts, another was answered at its first, and pauses were
\* taken inside a batch and between the batches
C20_Witness ==
    /\ pc = "done"
    /\ Len(given) > BATCH_SIZE
    /\ \E k \in 1..Len(given) : Count("attempt", k - 1) = MAX_ATTEMPTS
    /\ \E k \in 1..Len(given) : Count("call", k - 1) = 1
    /\ \E k \in 1..Len(given) : Count("pause", k - 1) = 1
    /\ \E p \in 1..Len(trace) : trace[p].ev = "batch_pause"

----------------------------------------------------------------------------
\* C21

\* run() has called analyze_locations
AnalyzeCalled == pc \notin {"fetch", "fetch_backoff", "collected"}

\* the events of analyze_locations and of what it calls
AnalyzerEvents ==
    {"batch", "attempt", "call", "except", "append", "backoff", "pause",
     "batch_pause"}

\* C21: analyze_locations called with the empty list forms no batch, makes
\* no attempt and no service call, sleeps neither inside a batch nor
\* between batches, appends no record, and returns the empty list
C21_EmptyInput ==
    AnalyzeCalled /\ given = <<>> =>
        /\ pc \in {"loop", "done"}
        /\ \A p \in 1..Len(trace) : trace[p].ev \notin AnalyzerEvents
        /\ results = <<>>
        /\ articles = <<>>
        /\ pc = "done" => returned = <<>>

\* feed collection failed at all three attempts, run() passed the empty
\* list on, and analyze_locations returned
C21_Witness ==
    /\ pc = "done"
    /\ given = <<>>
    /\ returned = <<>>
    /\ Len(trace) = 2 * FETCH_MAX_ATTEMPTS - 1
    /\ \A p \in FetchPositions : ReportsError(trace[p].reply)
    /\ Cardinality(FetchPositions) = FETCH_MAX_ATTEMPTS

====
